---- MODULE Spec2Model ----
(***************************************************************************)
(* Model of gas-structifier: the table validators, the schema parser, the  *)
(* JSON extractor, the credential accessor and the STRUCTIFY / SCHEMIFY    *)
(* entry points, translated from src/main.js, src/util.js, src/check.js.   *)
(*                                                                         *)
(* JavaScript values are encoded uniformly so that they can be compared:   *)
(*   - a table-level value is a record [t, a]: t is its JavaScript type    *)
(*     ("array", "string", "null", "undefined") and a its elements;        *)
(*   - a cell is a TLA+ string; the string undefined stands for the        *)
(*     JavaScript value undefined (a lookup that found nothing).           *)
(***************************************************************************)
EXTENDS Integers, Sequences, FiniteSets, TLC

VARIABLES pc, op, inputRange, schemaRange, schemaItems, inputResult,
          schemaResult, parsed, rawOutput, jsonResult, properties, log,
          schemaArray, jsonSchema, rowIndex, resultRows, responses, requests, outcome,
          tokenArgument, separators

\* the arguments and results of the table functions
tableVars == <<inputRange, schemaRange, schemaItems, inputResult, schemaResult, parsed>>

\* the argument and result of parseJSON
jsonVars == <<rawOutput, jsonResult>>

\* what outlives a function: the property store and the execution log
hostVars == <<properties, log>>

\* the locals of a running STRUCTIFY or SCHEMIFY call, the responses the
\* model service gave it, the requests it sent, the result of the call, and
\* the argument of a setOpenAIKey call, and the separator arguments of a
\* STRUCTIFY call
callVars == <<schemaArray, jsonSchema, rowIndex, resultRows, responses, requests, outcome,
              tokenArgument, separators>>

vars == <<pc, op, tableVars, jsonVars, hostVars, callVars>>

-----------------------------------------------------------------------------
(* Bounds *)

MaxRows == 2

MaxCols == 2

MaxRowLen == 3

MaxSchemaRows == 4

-----------------------------------------------------------------------------
(* JavaScript values *)

Null == [t |-> "null", a |-> <<>>]

Undefined == [t |-> "undefined", a |-> <<>>]

Arr(s) == [t |-> "array", a |-> s]

Str(s) == [t |-> "string", a |-> s]

undefined == "<undefined>"

OK == "ok"

NotRun == "not run"

\* getProperty of a key that was never set
NoProperty == "<null>"

SeqsUpTo(S, n) == UNION {[1..k -> S] : k \in 0..n}

\* Array.isArray(v)
IsArray(v) == v.t = "array"

\* !v for a table-level value: null, undefined and "" are falsy
Not(v) == v.t \in {"null", "undefined"} \/ (v.t = "string" /\ v.a = <<>>)

\* !c for a cell: "" and undefined are falsy
NotCell(c) == c \in {"", undefined}

\* v.length
Length(v) == Len(v.a)

\* the values "for (const x of v)" visits: the elements of an array, the
\* one-character strings of a string
Elements(v) ==
    IF v.t = "string" THEN [k \in 1..Len(v.a) |-> Str(<<v.a[k]>>)] ELSE v.a

\* a[i] with JavaScript's zero-based index: undefined outside the array
At(row, i) == IF i + 1 \in 1..Len(row.a) THEN row.a[i + 1] ELSE undefined

\* t[i] for a table: the JavaScript value undefined outside the array
RowAt(table, i) == IF i + 1 \in 1..Len(table.a) THEN table.a[i + 1] ELSE Undefined

\* no call is running
NoOutcome == [status |-> "none", value |-> undefined, error |-> ""]

NoCall ==
    /\ schemaArray = Undefined
    /\ jsonSchema = Undefined
    /\ rowIndex = 0
    /\ resultRows = <<>>
    /\ responses = <<>>
    /\ requests = 0
    /\ outcome = NoOutcome
    /\ tokenArgument = undefined
    /\ separators = [row |-> undefined, column |-> undefined]

-----------------------------------------------------------------------------
(* Table Validator *)

ErrInputEmpty == "Invalid inputRange: The input range must contain at least one row."

ErrInputColumns == "Invalid inputRange: Each row must have exactly 2 columns (identifier and input text)."

ErrSchemaRows == "Invalid schemaRange: The schema must have exactly 3 rows (column names, descriptions, and types)."

ErrSchemaKeys == "Invalid schemaRange: The first row (column names) must not be empty."

ErrSchemaTypeLength == "Invalid schemaRange: The third row (types) must have the same number of columns as the first row."

ErrSchemaTypeValues == "Invalid schemaRange: The third row (types) must contain only the following types: string, number, date, boolean."

validTypes == {"string", "number", "date", "boolean"}

\* the row test of the loop: every row has to be an array of two elements
BadInputRow(row) == ~IsArray(row) \/ Length(row) # 2

validateInputRange_NoArrayTest(rows) ==
    IF Not(rows) \/ Length(rows) = 0
    THEN ErrInputEmpty
    ELSE IF \E k \in 1..Length(rows) : Length(Elements(rows)[k]) # 2
         THEN ErrInputColumns
         ELSE OK

validateInputRange_NoEmptyTest(rows) ==
    IF Not(rows)
    THEN ErrInputEmpty
    ELSE IF \E k \in 1..Length(rows) : BadInputRow(Elements(rows)[k])
         THEN ErrInputColumns
         ELSE OK

\* the value is OK when the function returns, the error message when it throws
validateInputRange(rows) ==
    IF Not(rows) \/ Length(rows) = 0
    THEN ErrInputEmpty
    ELSE IF \E k \in 1..Length(rows) : BadInputRow(Elements(rows)[k])
         THEN ErrInputColumns
         ELSE OK

validateSchemaRange_NoBlankTest(table) ==
    IF Not(table) \/ Length(table) < 3
    THEN ErrSchemaRows
    ELSE LET columnNames == RowAt(table, 0)
             types == RowAt(table, 2)
         IN  IF Not(columnNames) \/ Length(columnNames) = 0
             THEN ErrSchemaKeys
             ELSE IF Not(types) \/ Length(types) # Length(columnNames)
                  THEN ErrSchemaTypeLength
                  ELSE IF ~(\A k \in 1..Length(types) : types.a[k] \in validTypes)
                       THEN ErrSchemaTypeValues
                       ELSE OK

validateSchemaRange(table) ==
    IF Not(table) \/ Length(table) < 3
    THEN ErrSchemaRows
    ELSE LET columnNames == RowAt(table, 0)
             types == RowAt(table, 2)
         IN  IF \/ Not(columnNames)
                \/ Length(columnNames) = 0
                \/ \A k \in 1..Length(columnNames) : NotCell(columnNames.a[k])
             THEN ErrSchemaKeys
             ELSE IF Not(types) \/ Length(types) # Length(columnNames)
                  THEN ErrSchemaTypeLength
                  ELSE IF ~(\A k \in 1..Length(types) : types.a[k] \in validTypes)
                       THEN ErrSchemaTypeValues
                       ELSE OK


-----------------------------------------------------------------------------
(* Schema Model Builder *)

TypeError == [t |-> "TypeError", a |-> <<>>]

Descriptor(k, d, ty) == [key |-> k, description |-> d, type |-> ty]

\* reading an index of null or undefined throws
Unreadable(v) == v.t \in {"null", "undefined"}

parseSchema_TypesFromDescriptions(table) ==
    IF Unreadable(table)
    THEN TypeError
    ELSE LET columns == RowAt(table, 0)
             descriptions == RowAt(table, 1)
         IN  IF ~IsArray(columns)
             THEN TypeError
             ELSE IF Length(columns) > 0 /\ Unreadable(descriptions)
                  THEN TypeError
                  ELSE Arr([k \in 1..Length(columns) |->
                              Descriptor(columns.a[k], At(descriptions, k - 1),
                                         At(descriptions, k - 1))])

\* columns.map((key, i) => ({key, description: descriptions[i], type: types[i]}))
parseSchema(table) ==
    IF Unreadable(table)
    THEN TypeError
    ELSE LET columns == RowAt(table, 0)
             descriptions == RowAt(table, 1)
             types == RowAt(table, 2)
         IN  IF ~IsArray(columns)
             THEN TypeError
             ELSE IF Length(columns) > 0 /\ (Unreadable(descriptions) \/ Unreadable(types))
                  THEN TypeError
                  ELSE Arr([k \in 1..Length(columns) |->
                              Descriptor(columns.a[k], At(descriptions, k - 1),
                                         At(types, k - 1))])

\* the table SCHEMIFY returns for the items the model sent
unparseSchema(items) ==
    Arr(<< Arr([k \in 1..Len(items) |-> items[k].key]),
           Arr([k \in 1..Len(items) |-> items[k].description]),
           Arr([k \in 1..Len(items) |-> items[k].type]) >>)

-----------------------------------------------------------------------------
(* Inputs of the table functions *)

Identifiers == {"ID_1", "ID_2"}

InputText == "John Doe is 29 years old."

KeyCells == {"", "name"}

DescCells == {"User's name"}

TypeCells == validTypes \cup {"integer"}

ArraysOver(S, n) == {Arr(s) : s \in SeqsUpTo(S, n)}

\* an input row of n cells: the identifier, then text
InputRowOfLength(n) == Arr([k \in 1..n |-> IF k = 1 THEN "ID_1" ELSE InputText])

InputRows == {InputRowOfLength(n) : n \in 0..MaxRowLen} \cup {Str(<<"a", "b">>), Null}

InputTables == ArraysOver(InputRows, MaxRows) \cup {Null, Undefined, Str(<<>>), Str(<<"a">>)}

KeyRows == ArraysOver(KeyCells, MaxCols) \cup {Null}

DescRows == ArraysOver(DescCells, MaxCols) \cup {Null}

TypeRows == ArraysOver(TypeCells, MaxCols) \cup {Null}

ExtraRow == Arr(<<"note">>)

\* the schema tables of n rows: keys, descriptions, types, then other rows
SchemaTablesOfLength(n) ==
    IF n = 0 THEN {Arr(<<>>)}
    ELSE IF n = 1 THEN {Arr(<<k>>) : k \in KeyRows}
    ELSE IF n = 2 THEN {Arr(<<k, d>>) : k \in KeyRows, d \in DescRows}
    ELSE {Arr(<<k, d, ty>> \o [j \in 1..(n - 3) |-> ExtraRow]) :
             k \in KeyRows, d \in DescRows, ty \in TypeRows}

SchemaTables ==
    {Null, Undefined} \cup UNION {SchemaTablesOfLength(n) : n \in 0..MaxSchemaRows}

ExampleInput == Arr(<<Arr(<<"ID_1", InputText>>)>>)

ExampleSchema == Arr(<<Arr(<<"name", "age">>), Arr(<<"User's name", "User's age">>),
                       Arr(<<"string", "number">>)>>)

Descriptors == {Descriptor(k, d, ty) : k \in {"name", "age"},
                                       d \in {"User's name", "User's age"},
                                       ty \in validTypes}

Schemas == SeqsUpTo(Descriptors, MaxCols)

-----------------------------------------------------------------------------
(* The table functions, applied to inputs drawn from the sets above in the  *)
(* order STRUCTIFY applies them.                                            *)

InitTables ==
    /\ NoCall
    /\ rawOutput = Undefined
    /\ jsonResult = NotRun
    /\ properties = NoProperty
    /\ log = <<>>
    /\ inputResult = NotRun
    /\ schemaResult = NotRun
    /\ parsed = Undefined
    /\ \/ /\ op = "validate"
          /\ pc = "validateInput"
          /\ schemaItems = <<>>
          /\ \/ inputRange \in InputTables /\ schemaRange \in {ExampleSchema, Null}
             \/ inputRange = ExampleInput /\ schemaRange \in SchemaTables
       \/ /\ op = "roundTrip"
          /\ pc = "unparse"
          /\ schemaItems \in Schemas
          /\ inputRange = ExampleInput
          /\ schemaRange = Undefined

UnparseSchema ==
    /\ pc = "unparse"
    /\ schemaRange' = unparseSchema(schemaItems)
    /\ pc' = "parse"
    /\ UNCHANGED <<op, inputRange, schemaItems, inputResult, schemaResult, parsed,
                 jsonVars, hostVars, callVars>>

ValidateInputRange ==
    /\ pc = "validateInput"
    /\ inputResult' = validateInputRange(inputRange)
    /\ pc' = "validateSchema"
    /\ UNCHANGED <<op, inputRange, schemaRange, schemaItems, schemaResult, parsed,
                 jsonVars, hostVars, callVars>>

ValidateSchemaRange ==
    /\ pc = "validateSchema"
    /\ schemaResult' = validateSchemaRange(schemaRange)
    /\ pc' = IF schemaResult' = OK THEN "parse" ELSE "done"
    /\ UNCHANGED <<op, inputRange, schemaRange, schemaItems, inputResult, parsed,
                 jsonVars, hostVars, callVars>>

ParseSchema ==
    /\ pc = "parse"
    /\ parsed' = parseSchema(schemaRange)
    /\ pc' = "done"
    /\ UNCHANGED <<op, inputRange, schemaRange, schemaItems, inputResult, schemaResult,
                 jsonVars, hostVars, callVars>>

NextTables == UnparseSchema \/ ValidateInputRange \/ ValidateSchemaRange \/ ParseSchema

SpecTables == InitTables /\ [][NextTables]_vars

-----------------------------------------------------------------------------
(* Response Normalizer                                                      *)
(*                                                                          *)
(* A text is a sequence of lexical tokens: the braces and brackets, "k" for *)
(* a member key with its colon, "1" for a scalar literal and "x" for any    *)
(* other character. A JSON value is a record [t, a] like the tables: t is   *)
(* "object", "array" or "number" and a the values it holds.                 *)

MaxTextLen == 5

Tokens == {"{", "}", "[", "]", "k", "1", "x"}

Obj(s) == [t |-> "object", a |-> s]

Num == [t |-> "number", a |-> <<>>]

NoParse == [ok |-> FALSE, v |-> Undefined, next |-> 0]

Parsed(v, n) == [ok |-> TRUE, v |-> v, next |-> n]

TokenAt(s, p) == IF p \in 1..Len(s) THEN s[p] ELSE "<end>"

RECURSIVE ParseValue(_, _)
\* the JSON value that starts at token p of s, and the position after it
ParseValue(s, p) ==
    IF TokenAt(s, p) = "1" THEN Parsed(Num, p + 1)
    ELSE IF TokenAt(s, p) = "[" THEN
        IF TokenAt(s, p + 1) = "]" THEN Parsed(Arr(<<>>), p + 2)
        ELSE LET e == ParseValue(s, p + 1)
             IN  IF e.ok /\ TokenAt(s, e.next) = "]"
                 THEN Parsed(Arr(<<e.v>>), e.next + 1)
                 ELSE NoParse
    ELSE IF TokenAt(s, p) = "{" THEN
        IF TokenAt(s, p + 1) = "}" THEN Parsed(Obj(<<>>), p + 2)
        ELSE IF TokenAt(s, p + 1) # "k" THEN NoParse
        ELSE LET m == ParseValue(s, p + 2)
             IN  IF m.ok /\ TokenAt(s, m.next) = "}"
                 THEN Parsed(Obj(<<m.v>>), m.next + 1)
                 ELSE NoParse
    ELSE NoParse

\* JSON.parse(text): the value, or a SyntaxError
JSONParse(s) ==
    LET r == ParseValue(s, 1)
    IN  IF r.ok /\ r.next = Len(s) + 1 THEN r ELSE NoParse

Closer(c) == IF c = "{" THEN "}" ELSE IF c = "[" THEN "]" ELSE "<none>"

\* /(\{[\s\S]*\}|\[[\s\S]*\])/ can match from position i
MatchesFrom(s, i) == \E j \in (i + 1)..Len(s) : s[j] = Closer(s[i])

\* only the first alternative of the pattern
MatchesFrom_ObjectsOnly(s, i) == s[i] = "{" /\ \E j \in (i + 1)..Len(s) : s[j] = "}"

Min(S) == CHOOSE m \in S : \A n \in S : m <= n

Max(S) == CHOOSE m \in S : \A n \in S : m >= n

\* rawOutput.match(...): the leftmost match, extended by the greedy [\s\S]*
\* to the last closing character; <<>> stands for null (no match)
jsonMatch_ObjectsOnly(s) ==
    LET starts == {i \in 1..Len(s) : MatchesFrom_ObjectsOnly(s, i)}
    IN  IF starts = {} THEN <<>>
        ELSE LET i == Min(starts)
                 j == Max({n \in (i + 1)..Len(s) : s[n] = Closer(s[i])})
             IN  SubSeq(s, i, j)

jsonMatch(s) ==
    LET starts == {i \in 1..Len(s) : MatchesFrom(s, i)}
    IN  IF starts = {} THEN <<>>
        ELSE LET i == Min(starts)
                 j == Max({n \in (i + 1)..Len(s) : s[n] = Closer(s[i])})
             IN  SubSeq(s, i, j)

Returned(v) == [status |-> "returned", value |-> v, cause |-> "", output |-> Undefined]

\* new Error(`Failed to parse JSON: ${error.message}\nOutput received: ${rawOutput}`)
FailedToParse(cause, raw) ==
    [status |-> "raised", value |-> Undefined, cause |-> cause, output |-> raw]

\* typeof raw === 'object'
TypeofObject(raw) == raw.t \in {"object", "array", "null"}

parseJSON_ObjectsOnly(raw) ==
    IF TypeofObject(raw) THEN Returned(raw)
    ELSE IF raw.t # "string" THEN FailedToParse("rawOutput.match is not a function", raw)
    ELSE IF jsonMatch_ObjectsOnly(raw.a) = <<>>
         THEN FailedToParse("No valid JSON found in the output.", raw)
    ELSE IF ~JSONParse(jsonMatch_ObjectsOnly(raw.a)).ok THEN FailedToParse("SyntaxError", raw)
    ELSE Returned(JSONParse(jsonMatch_ObjectsOnly(raw.a)).v)

parseJSON(raw) ==
    IF TypeofObject(raw) THEN Returned(raw)
    ELSE IF raw.t # "string" THEN FailedToParse("rawOutput.match is not a function", raw)
    ELSE IF jsonMatch(raw.a) = <<>> THEN FailedToParse("No valid JSON found in the output.", raw)
    ELSE IF ~JSONParse(jsonMatch(raw.a)).ok THEN FailedToParse("SyntaxError", raw)
    ELSE Returned(JSONParse(jsonMatch(raw.a)).v)

LogParseFailure == "ERROR: Failed to parse JSON"

-----------------------------------------------------------------------------
(* parseJSON applied to texts of up to MaxTextLen tokens and to values that *)
(* are not text                                                             *)

Texts == {Str(s) : s \in SeqsUpTo(Tokens, MaxTextLen)}

StructuredValues == {Obj(<<>>), Obj(<<Num>>), Arr(<<>>), Arr(<<Obj(<<Num>>)>>), Null}

RawOutputs == Texts \cup StructuredValues \cup {Num, Undefined}

InitJSON ==
    /\ NoCall
    /\ pc = "parseJSON"
    /\ op = "parseJSON"
    /\ rawOutput \in RawOutputs
    /\ jsonResult = NotRun
    /\ inputRange = Undefined
    /\ schemaRange = Undefined
    /\ schemaItems = <<>>
    /\ inputResult = NotRun
    /\ schemaResult = NotRun
    /\ parsed = Undefined
    /\ properties = NoProperty
    /\ log = <<>>

ParseJSON ==
    /\ pc = "parseJSON"
    /\ jsonResult' = parseJSON(rawOutput)
    /\ log' = IF jsonResult'.status = "raised" THEN Append(log, LogParseFailure) ELSE log
    /\ pc' = "done"
    /\ UNCHANGED <<op, rawOutput, tableVars, properties, callVars>>

NextJSON == ParseJSON

SpecJSON == InitJSON /\ [][NextJSON]_vars

-----------------------------------------------------------------------------
(* Credential Accessor *)

Keys == {"sk-1", "sk-2"}

ErrKeyEmpty == "API key cannot be empty. Please provide a valid API key."

ErrKeyNotSet == "OpenAI API key is not set."

MsgKeySet == "OpenAI API key has been successfully set."

MsgCheckSuccess == "SUCCESS: OpenAI API key is set."

MsgCheckError == "ERROR: OpenAI API key is not set. Please register the token by running setOpenAIKey(\"YOUR_OPENAI_API_KEY\")."

LogKeyNotSet == "ERROR: OpenAI API key is not set. Please register the token as the user."

CallReturned(v) == [status |-> "returned", value |-> v, error |-> ""]

CallRaised(e) == [status |-> "raised", value |-> undefined, error |-> e]

Running == [status |-> "running", value |-> undefined, error |-> ""]

NoToken_NullOnly(token) == token = NoProperty

\* !token for the stored property and for the argument of setOpenAIKey
NoToken(token) == token \in {NoProperty, ""}

\* getOpenAIKey(): the stored key, or the error it throws
getOpenAIKey(store) ==
    IF NoToken(store) THEN CallRaised(ErrKeyNotSet) ELSE CallReturned(store)

-----------------------------------------------------------------------------
(* Model Gateway *)

MaxRecords == 2

John == [name |-> "John Doe", age |-> "29"]

Jane == [name |-> "Jane Smith"]

\* record[key]
Lookup(record, key) == IF key \in DOMAIN record THEN record[key] ELSE undefined

\* the arrays the model may send as "records": records in some order, and
\* such an array with a null after its records
RecordLists ==
    SeqsUpTo({John, Jane}, MaxRecords) \cup
    {Append(s, Null) : s \in SeqsUpTo({John, Jane}, MaxRecords - 1)}

\* the parsed content of a response: an object with "records" and
\* "schema_items", either of which may be missing (Undefined)
Content(records, items) == [t |-> "object", records |-> records, schema_items |-> items]

NoContent == [t |-> "undefined", records |-> Undefined, schema_items |-> Undefined]

\* what UrlFetchApp.fetch gives: the HTTP status and the kind of body, with
\* the parsed content of choices[0].message.content where there is one
Response(status, body, content) == [status |-> status, body |-> body, content |-> content]

FetchException == Response(0, "exception", NoContent)

FailureResponses ==
    {FetchException,
     Response(500, "notJSON", NoContent),
     Response(500, "error", NoContent),
     Response(500, "noChoices", NoContent),
     Response(200, "refusal", NoContent),
     Response(200, "noChoices", NoContent),
     Response(200, "noContent", NoContent),
     Response(200, "badContent", NoContent)}

StructifyResponses ==
    FailureResponses \cup
    {Response(200, "content", Content(Arr(l), Undefined)) : l \in RecordLists} \cup
    {Response(200, "content", Content(Undefined, Arr(<<>>))),
     Response(200, "content", Content(Str(<<"n", "o">>), Undefined))}

NoResponse == Response(0, "none", NoContent)

FetchCount_RetryOnFailure(resp) == IF resp.body = "content" THEN 1 ELSE 2

\* the HTTP requests of one gateway call that got as far as
\* UrlFetchApp.fetch: the single fetch, whatever comes back
FetchCount(resp) == 1

ErrFetch == "Exception: request failed"

ErrSyntax == "SyntaxError: Unexpected token in JSON"

ErrApi == "OpenAI API error: "

ErrRefusal == "Refusal: "

ErrTypeError == "TypeError: Cannot read properties of undefined"

ErrNoContent == "No valid content in the response"

ErrBadContent == "Failed to parse JSON content: "

\* callOpenAIStructuredOutputs after the key was read: the request is sent,
\* resp comes back, and the function returns its content or throws
callOpenAIStructuredOutputs(resp) ==
    IF resp.body = "exception" THEN CallRaised(ErrFetch)
    ELSE IF resp.body = "notJSON" THEN CallRaised(ErrSyntax)
    ELSE IF resp.body = "error" THEN CallRaised(ErrApi)
    ELSE IF resp.body = "refusal" THEN CallRaised(ErrRefusal)
    ELSE IF resp.body = "noChoices" THEN CallRaised(ErrTypeError)
    ELSE IF resp.body = "noContent" THEN CallRaised(ErrNoContent)
    ELSE IF resp.body = "badContent" THEN CallRaised(ErrBadContent)
    ELSE [status |-> "returned", value |-> resp.content, error |-> ""]

-----------------------------------------------------------------------------
(* STRUCTIFY *)

SchemaType_DateKept(type) == IF type \in validTypes THEN type ELSE "string"

\* the switch on the descriptor's type
SchemaType(type) ==
    IF type = "string" THEN "string"
    ELSE IF type = "number" THEN "number"
    ELSE IF type = "boolean" THEN "boolean"
    ELSE IF type = "date" THEN "string"
    ELSE "string"

\* properties[key] = {type, description}: a later descriptor with the same
\* key replaces an earlier one
ItemProperties(sa) ==
    [key \in {sa[k].key : k \in 1..Len(sa)} |->
        LET last == Max({k \in 1..Len(sa) : sa[k].key = key})
        IN  [type |-> SchemaType(sa[last].type), description |-> sa[last].description]]

\* the JSON Schema sent with every request of the call
BuildJsonSchema(sa) ==
    [type |-> "object",
     properties |->
        [records |->
            [type |-> "array",
             items |-> [type |-> "object",
                        properties |-> ItemProperties(sa),
                        required |-> [k \in 1..Len(sa) |-> sa[k].key],
                        additionalProperties |-> FALSE]]],
     required |-> <<"records">>,
     additionalProperties |-> FALSE]

\* [identifier, ...schemaArray.map(() => "")]
FallbackRow(identifier, sa) == <<identifier>> \o [k \in 1..Len(sa) |-> ""]

RowValues_Reversed(record, sa) == [k \in 1..Len(sa) |-> Lookup(record, sa[Len(sa) + 1 - k].key)]

\* schemaArray.map(s => record[s.key])
RowValues(record, sa) == [k \in 1..Len(sa) |-> Lookup(record, sa[k].key)]

\* responseObject?.records
RecordsOf(responseObject) ==
    IF responseObject.t \in {"null", "undefined"} THEN Undefined ELSE responseObject.records

\* reading record[s.key] of a null record throws
Unusable(record, sa) == record = Null /\ Len(sa) > 0

ErrNoRecords == "No valid 'records' array in the response"

TryBlock_Prepending(identifier, sa, result) ==
    IF result.status = "raised"
    THEN [rows |-> <<>>, caught |-> TRUE, error |-> result.error]
    ELSE IF ~IsArray(RecordsOf(result.value))
    THEN [rows |-> <<>>, caught |-> TRUE, error |-> ErrNoRecords]
    ELSE LET records == RecordsOf(result.value).a
             bad == {k \in 1..Len(records) : Unusable(records[k], sa)}
             n == IF bad = {} THEN Len(records) ELSE Min(bad) - 1
         IN  [rows |-> [k \in 1..n |-> <<identifier>> \o RowValues(records[n + 1 - k], sa)],
              caught |-> bad # {},
              error |-> IF bad # {} THEN ErrTypeError ELSE ""]

\* the try block of one input row: the rows it pushes, whether it ends in
\* the catch block, and the error caught
TryBlock(identifier, sa, result) ==
    IF result.status = "raised"
    THEN [rows |-> <<>>, caught |-> TRUE, error |-> result.error]
    ELSE IF ~IsArray(RecordsOf(result.value))
    THEN [rows |-> <<>>, caught |-> TRUE, error |-> ErrNoRecords]
    ELSE LET records == RecordsOf(result.value).a
             bad == {k \in 1..Len(records) : Unusable(records[k], sa)}
             n == IF bad = {} THEN Len(records) ELSE Min(bad) - 1
         IN  [rows |-> [k \in 1..n |-> <<identifier>> \o RowValues(records[k], sa)],
              caught |-> bad # {},
              error |-> IF bad # {} THEN ErrTypeError ELSE ""]

CatchBlock_NoFallback(identifier, sa) == <<>>

\* the catch block: the rows it pushes
CatchBlock(identifier, sa) == <<FallbackRow(identifier, sa)>>

\* the rows one pass of the loop body adds to resultRows
LoopBody(identifier, sa, result) ==
    LET try == TryBlock(identifier, sa, result)
    IN  IF try.caught THEN try.rows \o CatchBlock(identifier, sa) ELSE try.rows

\* Logger.log("Error or refusal: " + error), the error rendered as its message
LogErrorOrRefusal(error) == "Error or refusal: " \o error

\* Array.prototype.join renders undefined as the empty string
CellText(c) == IF c = undefined THEN "" ELSE c

RECURSIVE JoinFrom(_, _, _)
JoinFrom(texts, sep, k) ==
    IF k > Len(texts) THEN ""
    ELSE IF k = Len(texts) THEN texts[k]
    ELSE texts[k] \o sep \o JoinFrom(texts, sep, k + 1)

\* texts.join(sep)
Join(texts, sep) == JoinFrom(texts, sep, 1)

Serialize_SeparatorsSwapped(rows, rowSeparator, columnSeparator) ==
    Join([r \in 1..Len(rows) |->
            Join([c \in 1..Len(rows[r]) |-> CellText(rows[r][c])], rowSeparator)],
         columnSeparator)

\* resultRows.map(row => row.join(columnSeparator)).join(rowSeparator)
Serialize(rows, rowSeparator, columnSeparator) ==
    Join([r \in 1..Len(rows) |->
            Join([c \in 1..Len(rows[r]) |-> CellText(rows[r][c])], columnSeparator)],
         rowSeparator)

DefaultRowSeparator == "|"

DefaultColumnSeparator == ","

\* a default parameter: the default stands in for an omitted argument
Argument(given, default) == IF given = undefined THEN default ELSE given

\* the separator arguments of a call: rowSeparator and columnSeparator
Separators(r, c) == [row |-> r, column |-> c]

\* both separators left out, as the spreadsheet wrapper calls STRUCTIFY
Omitted == Separators(undefined, undefined)

\* separator arguments given by the caller: both, and the row separator only
GivenSeparators == {Separators(";", ":"), Separators("/", undefined)}

MaxInputRows == 2

\* "ID_1", "ID_2", ...
IdentifierOf(k) == "ID_" \o ToString(k)

InputTableOf(ids) == Arr([k \in 1..Len(ids) |-> Arr(<<ids[k], InputText>>)])

\* the input tables STRUCTIFY is called with: rows with distinct identifiers,
\* two rows with the same identifier, and tables the validator rejects
CallInputs ==
    {InputTableOf([k \in 1..n |-> IdentifierOf(k)]) : n \in 1..MaxInputRows} \cup
    {InputTableOf(<<"ID_1", "ID_1">>), Null, Arr(<<>>), Arr(<<InputRowOfLength(3)>>)}

ShortDescriptionSchema ==
    Arr(<<Arr(<<"name", "age">>), Arr(<<"User's name">>), Arr(<<"string", "number">>)>>)

DateSchema == Arr(<<Arr(<<"name">>), Arr(<<"User's name">>), Arr(<<"date">>)>>)

\* a schema that names one key twice
RepeatedKeySchema ==
    Arr(<<Arr(<<"name", "name">>), Arr(<<"User's name", "Nickname">>), Arr(<<"string", "number">>)>>)

\* the schema tables STRUCTIFY is called with
CallSchemas ==
    {ExampleSchema, ShortDescriptionSchema, DateSchema, RepeatedKeySchema,
     Null,
     Arr(<<Arr(<<"name">>), Arr(<<"User's name">>)>>),
     Arr(<<Arr(<<"">>), Arr(<<"User's name">>), Arr(<<"string">>)>>),
     Arr(<<Arr(<<"name">>), Arr(<<"User's name">>), Arr(<<"integer">>)>>),
     Arr(<<Arr(<<"name">>), Null, Arr(<<"string">>)>>),
     Arr(<<Arr(<<>>), Arr(<<>>), Arr(<<>>)>>),
     Arr(<<Arr(<<"name", "">>), Arr(<<"User's name", "">>), Arr(<<"string", "string">>)>>)}

\* the calls of STRUCTIFY: every input table with the example schema, and
\* every schema table with the example input
Calls ==
    {<<in, ExampleSchema>> : in \in CallInputs} \cup
    {<<ExampleInput, schema>> : schema \in CallSchemas}

\* STRUCTIFY up to its loop: both validators, parseSchema and the JSON Schema
STRUCTIFY(in, schema, seps) ==
    /\ pc = "idle"
    /\ op' = "STRUCTIFY"
    /\ separators' = seps
    /\ inputRange' = in
    /\ schemaRange' = schema
    /\ inputResult' = validateInputRange(in)
    /\ schemaResult' = IF inputResult' = OK THEN validateSchemaRange(schema) ELSE NotRun
    /\ schemaArray' = IF inputResult' = OK /\ schemaResult' = OK
                      THEN parseSchema(schema) ELSE Undefined
    /\ jsonSchema' = IF IsArray(schemaArray') THEN BuildJsonSchema(schemaArray'.a) ELSE Undefined
    /\ outcome' = IF inputResult' # OK THEN CallRaised(inputResult')
                  ELSE IF schemaResult' # OK THEN CallRaised(schemaResult')
                  ELSE IF ~IsArray(schemaArray') THEN CallRaised(ErrTypeError)
                  ELSE Running
    /\ pc' = IF outcome' = Running THEN "rows" ELSE "done"
    /\ rowIndex' = 0
    /\ resultRows' = <<>>
    /\ responses' = <<>>
    /\ requests' = 0
    /\ log' = <<>>
    /\ UNCHANGED <<schemaItems, parsed, jsonVars, properties, tokenArgument>>

\* one pass of the loop over inputRange: the request for row rowIndex and
\* the rows pushed for it
StructifyRow ==
    /\ pc = "rows"
    /\ rowIndex < Length(inputRange)
    /\ LET identifier == At(RowAt(inputRange, rowIndex), 0)
       IN  \/ /\ getOpenAIKey(properties).status = "raised"
              /\ responses' = Append(responses, NoResponse)
              /\ requests' = requests
              /\ resultRows' = resultRows \o
                    LoopBody(identifier, schemaArray.a, getOpenAIKey(properties))
              /\ log' = log \o <<LogKeyNotSet, LogErrorOrRefusal(ErrKeyNotSet)>>
           \/ /\ getOpenAIKey(properties).status = "returned"
              /\ \E resp \in StructifyResponses :
                    /\ responses' = Append(responses, resp)
                    /\ requests' = requests + FetchCount(resp)
                    /\ resultRows' = resultRows \o
                          LoopBody(identifier, schemaArray.a, callOpenAIStructuredOutputs(resp))
                    /\ LET try == TryBlock(identifier, schemaArray.a,
                                            callOpenAIStructuredOutputs(resp))
                       IN  log' = IF try.caught
                                  THEN Append(log, LogErrorOrRefusal(try.error)) ELSE log
    /\ rowIndex' = rowIndex + 1
    /\ UNCHANGED <<pc, op, tableVars, jsonVars, properties, schemaArray, jsonSchema, outcome,
                   tokenArgument, separators>>

\* the end of the loop: the rows are joined and returned
StructifyReturn ==
    /\ pc = "rows"
    /\ rowIndex = Length(inputRange)
    /\ outcome' = CallReturned(Serialize(resultRows,
                                         Argument(separators.row, DefaultRowSeparator),
                                         Argument(separators.column, DefaultColumnSeparator)))
    /\ pc' = "done"
    /\ UNCHANGED <<op, tableVars, jsonVars, hostVars, schemaArray, jsonSchema, rowIndex,
                   resultRows, responses, requests, tokenArgument, separators>>

-----------------------------------------------------------------------------
(* SCHEMIFY *)

ErrSchemaItems == "Invalid response: 'schema_items' is missing or not an array."

ErrSchemaFormat == "Invalid schema format. Expected an array of objects with 'key', 'description', and 'type' (one of: string, number, date, boolean), but received: "

\* the items the model may send: well-formed ones, and ones with an empty
\* key, an empty description, an unknown type, no type, and null
ItemChoices ==
    {Descriptor("name", "User's name", "string"),
     Descriptor("age", "User's age", "number"),
     Descriptor("birthday", "Date of birth", "date"),
     Descriptor("", "User's name", "string"),
     Descriptor("name", "", "string"),
     Descriptor("name", "User's name", "integer"),
     Descriptor("name", "User's name", undefined),
     Null}

SchemifyResponses ==
    FailureResponses \cup
    {Response(200, "content", Content(Undefined, Arr(l))) : l \in SeqsUpTo(ItemChoices, MaxCols)} \cup
    {Response(200, "content", Content(Arr(<<>>), Undefined)),
     Response(200, "content", Content(Undefined, Str(<<"n", "o">>)))}

\* responseObject?.schema_items
ItemsOf(responseObject) ==
    IF responseObject.t \in {"null", "undefined"} THEN Undefined ELSE responseObject.schema_items

ItemAccepted_TypeUnchecked(item) ==
    /\ item # Null
    /\ ~NotCell(item.key)
    /\ ~NotCell(item.description)
    /\ ~NotCell(item.type)

\* item.key && item.description && item.type && [...].includes(item.type);
\* reading item.key of null throws
ItemAccepted(item) ==
    /\ item # Null
    /\ ~NotCell(item.key)
    /\ ~NotCell(item.description)
    /\ ~NotCell(item.type)
    /\ item.type \in validTypes

\* SCHEMIFY after the gateway call: the table it returns or the error it
\* throws; every() stops at the first item that is not accepted
SchemifyResult(result) ==
    IF result.status = "raised" THEN CallRaised(result.error)
    ELSE IF ~IsArray(ItemsOf(result.value)) THEN CallRaised(ErrSchemaItems)
    ELSE LET items == ItemsOf(result.value).a
             refused == {k \in 1..Len(items) : ~ItemAccepted(items[k])}
         IN  IF refused = {} THEN CallReturned(unparseSchema(items))
             ELSE IF items[Min(refused)] = Null THEN CallRaised(ErrTypeError)
             ELSE CallRaised(ErrSchemaFormat)

SCHEMIFY ==
    /\ pc = "idle"
    /\ op' = "SCHEMIFY"
    /\ \/ /\ getOpenAIKey(properties).status = "raised"
          /\ outcome' = getOpenAIKey(properties)
          /\ responses' = <<>>
          /\ requests' = 0
          /\ schemaArray' = Undefined
          /\ log' = <<LogKeyNotSet>>
       \/ /\ getOpenAIKey(properties).status = "returned"
          /\ \E resp \in SchemifyResponses :
                /\ responses' = <<resp>>
                /\ requests' = FetchCount(resp)
                /\ outcome' = SchemifyResult(callOpenAIStructuredOutputs(resp))
                /\ schemaArray' =
                      IF callOpenAIStructuredOutputs(resp).status = "returned"
                      THEN ItemsOf(callOpenAIStructuredOutputs(resp).value)
                      ELSE Undefined
                /\ log' = <<>>
    /\ pc' = "done"
    /\ UNCHANGED <<tableVars, jsonVars, properties, jsonSchema, rowIndex, resultRows,
                   tokenArgument, separators>>

-----------------------------------------------------------------------------
(* The entry points of the credential accessor *)

CheckToken ==
    /\ pc = "idle"
    /\ op' = "checkToken"
    /\ outcome' = IF NoToken(properties) THEN CallReturned(MsgCheckError)
                  ELSE CallReturned(MsgCheckSuccess)
    /\ log' = <<outcome'.value>>
    /\ pc' = "done"
    /\ UNCHANGED <<tableVars, jsonVars, properties, schemaArray, jsonSchema, rowIndex,
                   resultRows, responses, requests, tokenArgument, separators>>

SetOpenAIKey_StoringFirst(token) ==
    /\ pc = "idle"
    /\ op' = "setOpenAIKey"
    /\ tokenArgument' = token
    /\ properties' = token
    /\ IF NoToken(token)
       THEN /\ outcome' = CallRaised(ErrKeyEmpty)
            /\ log' = <<>>
       ELSE /\ log' = <<MsgKeySet>>
            /\ outcome' = CallReturned(MsgKeySet)
    /\ pc' = "done"
    /\ UNCHANGED <<tableVars, jsonVars, schemaArray, jsonSchema, rowIndex,
                   resultRows, responses, requests, separators>>

SetOpenAIKey(token) ==
    /\ pc = "idle"
    /\ op' = "setOpenAIKey"
    /\ tokenArgument' = token
    /\ IF NoToken(token)
       THEN /\ outcome' = CallRaised(ErrKeyEmpty)
            /\ log' = <<>>
            /\ UNCHANGED properties
       ELSE /\ properties' = token
            /\ log' = <<MsgKeySet>>
            /\ outcome' = CallReturned(MsgKeySet)
    /\ pc' = "done"
    /\ UNCHANGED <<tableVars, jsonVars, schemaArray, jsonSchema, rowIndex,
                   resultRows, responses, requests, separators>>

GetOpenAIKey ==
    /\ pc = "idle"
    /\ op' = "getOpenAIKey"
    /\ outcome' = getOpenAIKey(properties)
    /\ log' = IF outcome'.status = "raised" THEN <<LogKeyNotSet>> ELSE <<>>
    /\ pc' = "done"
    /\ UNCHANGED <<tableVars, jsonVars, properties, schemaArray, jsonSchema, rowIndex,
                   resultRows, responses, requests, tokenArgument, separators>>

-----------------------------------------------------------------------------
(* The library as the spreadsheet uses it: one call at a time *)

NoTables ==
    /\ inputRange = Undefined
    /\ schemaRange = Undefined
    /\ schemaItems = <<>>
    /\ inputResult = NotRun
    /\ schemaResult = NotRun
    /\ parsed = Undefined

Init ==
    /\ pc = "idle"
    /\ op = "none"
    /\ properties = NoProperty
    /\ log = <<>>
    /\ rawOutput = Undefined
    /\ jsonResult = NotRun
    /\ NoTables
    /\ NoCall

\* the call is over: its result went to the caller, its locals are gone
Return ==
    /\ pc = "done"
    /\ pc' = "idle"
    /\ op' = "none"
    /\ log' = <<>>
    /\ inputRange' = Undefined
    /\ schemaRange' = Undefined
    /\ inputResult' = NotRun
    /\ schemaResult' = NotRun
    /\ schemaArray' = Undefined
    /\ jsonSchema' = Undefined
    /\ rowIndex' = 0
    /\ resultRows' = <<>>
    /\ responses' = <<>>
    /\ requests' = 0
    /\ outcome' = NoOutcome
    /\ tokenArgument' = undefined
    /\ separators' = Omitted
    /\ UNCHANGED <<schemaItems, parsed, jsonVars, properties>>

Next ==
    \/ \E call \in Calls : STRUCTIFY(call[1], call[2], Omitted)
    \/ \E seps \in GivenSeparators :
          STRUCTIFY(InputTableOf(<<"ID_1", "ID_2">>), ExampleSchema, seps)
    \/ StructifyRow
    \/ StructifyReturn
    \/ SCHEMIFY
    \/ CheckToken
    \/ \E token \in Keys \cup {""} : SetOpenAIKey(token)
    \/ GetOpenAIKey
    \/ Return

Spec == Init /\ [][Next]_vars

-----------------------------------------------------------------------------
(* Properties of the table functions (SpecTables) *)

Absent(v) == v.t \in {"null", "undefined"}

PairRow(row) == row.t = "array" /\ Len(row.a) = 2

InvalidInputTable(rows) ==
    \/ Absent(rows)
    \/ Len(rows.a) = 0
    \/ \E k \in 1..Len(rows.a) : ~PairRow(Elements(rows)[k])

\* C1: validateInputRange raises exactly when rows is absent, has no rows or
\* has a row that is not an array of two elements; otherwise it returns, and
\* in both cases it changes nothing but its own result.
C1_ValidateInputRangeRaisesIff ==
    [][pc = "validateInput" =>
         /\ (inputResult' # OK) <=> InvalidInputTable(inputRange)
         /\ inputResult' \in {OK, ErrInputEmpty, ErrInputColumns}
         /\ UNCHANGED <<op, inputRange, schemaRange, schemaItems, schemaResult, parsed,
                 jsonVars, hostVars, callVars>>]_vars

C1_Witness ==
    /\ inputResult = ErrInputColumns
    /\ inputRange.t = "array"
    /\ \E k \in 1..Len(inputRange.a) : inputRange.a[k] = Str(<<"a", "b">>)

KeyRowOf(table) == RowAt(table, 0)

TypeRowOf(table) == RowAt(table, 2)

TooFewRows(table) == Absent(table) \/ Len(table.a) < 3

KeyRowBlank(table) ==
    \/ Len(KeyRowOf(table).a) = 0
    \/ \A k \in 1..Len(KeyRowOf(table).a) : KeyRowOf(table).a[k] = ""

TypeRowLengthDiffers(table) == Len(TypeRowOf(table).a) # Len(KeyRowOf(table).a)

TypeRowHasUnknown(table) ==
    \E k \in 1..Len(TypeRowOf(table).a) :
        TypeRowOf(table).a[k] \notin {"string", "number", "date", "boolean"}

\* C2: validateSchemaRange raises when the table is absent or has fewer than
\* three rows, when the key row is empty or all blank, when the type row's
\* length differs from the key row's, and when a type is not one of
\* string, number, date, boolean.
C2_ValidateSchemaRangeRaises ==
    schemaResult # NotRun =>
        /\ TooFewRows(schemaRange) => schemaResult # OK
        /\ KeyRowBlank(schemaRange) => schemaResult # OK
        /\ TypeRowLengthDiffers(schemaRange) => schemaResult # OK
        /\ TypeRowHasUnknown(schemaRange) => schemaResult # OK

C2_Witness ==
    /\ schemaResult = ErrSchemaKeys
    /\ Len(schemaRange.a) >= 3
    /\ Len(KeyRowOf(schemaRange).a) = 2
    /\ ~TypeRowLengthDiffers(schemaRange)
    /\ ~TypeRowHasUnknown(schemaRange)

BothAccept == inputResult = OK /\ schemaResult = OK

ThreeConditions ==
    /\ \A k \in 1..Len(inputRange.a) : Len(Elements(inputRange)[k].a) = 2
    /\ Len(schemaRange.a) >= 3
    /\ ~TypeRowLengthDiffers(schemaRange)
    /\ ~TypeRowHasUnknown(schemaRange)

HeaderRowsEqualLength(table) ==
    /\ Len(RowAt(table, 1).a) = Len(KeyRowOf(table).a)
    /\ Len(TypeRowOf(table).a) = Len(KeyRowOf(table).a)

\* C4: a schema table that validateSchemaRange accepts has key, description
\* and type rows of equal length, and parseSchema gives descriptors none of
\* which lacks its description.
C4_AcceptedSchemaHasEqualRows ==
    /\ schemaResult = OK => HeaderRowsEqualLength(schemaRange)
    /\ (op = "validate" /\ pc = "done" /\ schemaResult = OK) =>
          /\ parsed.t = "array"
          /\ \A k \in 1..Len(parsed.a) : parsed.a[k].description # undefined

\* C5: unparsing a Schema into [keys, descriptions, types] and parsing the
\* table again gives the Schema back: same length, order and fields.
C5_ParseUnparseRoundTrip ==
    (op = "roundTrip" /\ pc = "done") =>
        /\ parsed.t = "array"
        /\ Len(parsed.a) = Len(schemaItems)
        /\ \A k \in 1..Len(schemaItems) :
              /\ parsed.a[k].key = schemaItems[k].key
              /\ parsed.a[k].description = schemaItems[k].description
              /\ parsed.a[k].type = schemaItems[k].type

C5_Witness ==
    /\ op = "roundTrip"
    /\ pc = "done"
    /\ Len(schemaItems) = 2
    /\ schemaItems[1].key # schemaItems[2].key
    /\ schemaItems[1].description # schemaItems[2].description
    /\ schemaItems[1].type = "date"
    /\ parsed.t = "array"

-----------------------------------------------------------------------------
(* Properties of parseJSON (SpecJSON) *)

RECURSIVE Render(_)
\* the text of a JSON value
Render(v) ==
    IF v.t = "number" THEN <<"1">>
    ELSE IF v.t = "array" THEN
        IF v.a = <<>> THEN <<"[", "]">> ELSE <<"[">> \o Render(v.a[1]) \o <<"]">>
    ELSE IF v.a = <<>> THEN <<"{", "}">> ELSE <<"{", "k">> \o Render(v.a[1]) \o <<"}">>

RECURSIVE JSONValues(_)
\* the JSON values nested at most d deep
JSONValues(d) ==
    IF d = 0 THEN {Num}
    ELSE LET inner == JSONValues(d - 1)
         IN  inner \cup {Arr(<<>>), Obj(<<>>)}
                   \cup {Arr(<<v>>) : v \in inner} \cup {Obj(<<v>>) : v \in inner}

\* the JSON objects and arrays whose text fits in a text of the model
Containers ==
    {v \in JSONValues(MaxTextLen \div 2) : v.t # "number" /\ Len(Render(v)) <= MaxTextLen}

Brackets == {"{", "}", "[", "]"}

NoBrackets(s, from, to) == \A n \in from..to : s[n] \notin Brackets

\* the text of v stands in s from position p on
StandsAt(s, p, v) ==
    /\ p + Len(Render(v)) - 1 <= Len(s)
    /\ SubSeq(s, p, p + Len(Render(v)) - 1) = Render(v)

NoBracketedSpan(s) ==
    ~ \E i \in 1..Len(s) : \E j \in (i + 1)..Len(s) :
          \/ s[i] = "{" /\ s[j] = "}"
          \/ s[i] = "[" /\ s[j] = "]"

\* C6: parseJSON returns a structured value unchanged; for a text made of one
\* well-formed JSON object or array with noise around it that holds no brace
\* or bracket it returns the value of that object or array; for a text with
\* no {...} or [...] span it raises an error that carries the raw text.
C6_ParseJSONCases ==
    (op = "parseJSON" /\ pc = "done") =>
        /\ rawOutput.t \in {"object", "array"} =>
              jsonResult.status = "returned" /\ jsonResult.value = rawOutput
        /\ rawOutput.t = "string" =>
              \A v \in Containers : \A p \in 1..Len(rawOutput.a) :
                  ( /\ StandsAt(rawOutput.a, p, v)
                    /\ NoBrackets(rawOutput.a, 1, p - 1)
                    /\ NoBrackets(rawOutput.a, p + Len(Render(v)), Len(rawOutput.a)) )
                  => jsonResult.status = "returned" /\ jsonResult.value = v
        /\ (rawOutput.t = "string" /\ NoBracketedSpan(rawOutput.a)) =>
              jsonResult.status = "raised" /\ jsonResult.output = rawOutput

C6_Witness ==
    /\ op = "parseJSON"
    /\ pc = "done"
    /\ rawOutput = Str(<<"x", "[", "1", "]", "x">>)
    /\ jsonResult.status = "returned"
    /\ jsonResult.value = Arr(<<Num>>)

\* C7: parseJSON returns the value of the first balanced {...} or [...] span
\* whenever that span is a well-formed JSON object or array, whatever braces
\* or brackets follow it (here: the span starts at the first brace or
\* bracket of the text).
C7_FirstBalancedSpanIsParsed ==
    (op = "parseJSON" /\ pc = "done" /\ rawOutput.t = "string") =>
        \A v \in Containers : \A p \in 1..Len(rawOutput.a) :
            (StandsAt(rawOutput.a, p, v) /\ NoBrackets(rawOutput.a, 1, p - 1))
            => jsonResult.status = "returned" /\ jsonResult.value = v

-----------------------------------------------------------------------------
(* Properties of STRUCTIFY (Spec)                                           *)
(*                                                                          *)
(* They are stated over the tables the call was given and the responses the *)
(* model service sent, row by row.                                          *)

\* the loop over inputRange has started: both tables passed validation
LoopStarted == op = "STRUCTIFY" /\ pc \in {"rows", "done"} /\ outcome.status # "raised"

\* the input rows processed so far
Processed == 1..Len(responses)

IdOfRow(k) == inputRange.a[k].a[1]

KeyRow == schemaRange.a[1].a

EmptyRow(k) == <<IdOfRow(k)>> \o [c \in 1..Len(KeyRow) |-> ""]

RecordsSent(k) == responses[k].content.records

\* the gateway threw: transport or API error, refusal, no or unparsable content
GatewayFailed(k) ==
    responses[k].body \in
        {"exception", "notJSON", "error", "refusal", "noChoices", "noContent", "badContent"}

RecordsNotArray(k) == responses[k].body = "content" /\ RecordsSent(k).t # "array"

HasRecords(k) == responses[k].body = "content" /\ RecordsSent(k).t = "array"

\* a null record has no fields to read; a schema without fields reads none
NullsOf(k) ==
    IF Len(KeyRow) = 0 THEN {}
    ELSE {m \in 1..Len(RecordsSent(k).a) : RecordsSent(k).a[m] = Null}

\* the records of row k that can be read: those before the first null
UsableCount(k) == IF NullsOf(k) = {} THEN Len(RecordsSent(k).a) ELSE Min(NullsOf(k)) - 1

\* the number of output rows of input row k
RowCount(k) ==
    IF HasRecords(k) THEN UsableCount(k) + (IF NullsOf(k) = {} THEN 0 ELSE 1) ELSE 1

RECURSIVE Offset(_)
\* the number of output rows of the input rows before row k
Offset(k) == IF k <= 1 THEN 0 ELSE Offset(k - 1) + RowCount(k - 1)

Field(record, key) == IF key \in DOMAIN record THEN record[key] ELSE undefined

\* the output row of record m of input row k
RecordRow(k, m) ==
    <<IdOfRow(k)>> \o [c \in 1..Len(KeyRow) |-> Field(RecordsSent(k).a[m], KeyRow[c])]

\* C8: an input row whose processing fails (API error, refusal, missing or
\* unparsable content, 'records' not an array) gets exactly one output row,
\* its identifier followed by one empty value per schema field; the call is
\* not aborted and the rows of the other input rows are what their records
\* give.
C8_LenientFallback ==
    LoopStarted =>
        /\ Len(resultRows) = Offset(Len(responses) + 1)
        /\ \A k \in Processed :
              (GatewayFailed(k) \/ RecordsNotArray(k)) =>
                  /\ RowCount(k) = 1
                  /\ resultRows[Offset(k) + 1] = EmptyRow(k)
        /\ \A k \in Processed :
              (HasRecords(k) /\ NullsOf(k) = {}) =>
                  \A m \in 1..Len(RecordsSent(k).a) :
                      resultRows[Offset(k) + m] = RecordRow(k, m)
        /\ pc = "done" =>
              /\ outcome.status = "returned"
              /\ Len(responses) = Len(inputRange.a)

C8_Witness ==
    /\ LoopStarted
    /\ pc = "done"
    /\ schemaRange = ExampleSchema
    /\ Len(responses) = 2
    /\ responses[1].body = "refusal"
    /\ HasRecords(2)
    /\ RecordsSent(2).a = <<John, Jane>>
    /\ resultRows = <<EmptyRow(1), RecordRow(2, 1), RecordRow(2, 2)>>

SchemaRejected(table) ==
    \/ TooFewRows(table)
    \/ KeyRowBlank(table)
    \/ TypeRowLengthDiffers(table)
    \/ TypeRowHasUnknown(table)

\* C9: a STRUCTIFY call with an invalid input or schema table, and a
\* STRUCTIFY or SCHEMIFY call made while no credential is stored, raises an
\* error and returns nothing.
C9_SetupErrorsAbort ==
    (pc = "done" /\ op \in {"STRUCTIFY", "SCHEMIFY"}) =>
        /\ (op = "STRUCTIFY" /\ (InvalidInputTable(inputRange) \/ SchemaRejected(schemaRange)))
              => outcome.status = "raised"
        /\ properties = NoProperty => outcome.status = "raised"

\* C10: the output rows of input row i come before those of input row j
\* when i < j; the rows of one input row follow the order of the records
\* the model returned and start with that row's identifier; the values
\* after the identifier are record[key] for the keys in key-row order.
C10_OutputOrder ==
    LoopStarted =>
        /\ Len(resultRows) = Offset(Len(responses) + 1)
        /\ \A k \in Processed : \A m \in 1..RowCount(k) :
              resultRows[Offset(k) + m][1] = IdOfRow(k)
        /\ \A k \in Processed :
              HasRecords(k) =>
                  \A m \in 1..UsableCount(k) :
                      /\ Len(resultRows[Offset(k) + m]) = 1 + Len(KeyRow)
                      /\ \A c \in 1..Len(KeyRow) :
                            resultRows[Offset(k) + m][1 + c] =
                                Field(RecordsSent(k).a[m], KeyRow[c])

C10_Witness ==
    /\ LoopStarted
    /\ pc = "done"
    /\ schemaRange = ExampleSchema
    /\ Len(responses) = 2
    /\ IdOfRow(1) # IdOfRow(2)
    /\ HasRecords(1)
    /\ HasRecords(2)
    /\ RecordsSent(1).a = <<John, Jane>>
    /\ RecordsSent(2).a = <<Jane, John>>
    /\ resultRows = <<<<"ID_1", "John Doe", "29">>, <<"ID_1", "Jane Smith", undefined>>,
                      <<"ID_2", "Jane Smith", undefined>>, <<"ID_2", "John Doe", "29">>>>

\* the tables of the STRUCTIFY call under way were rejected
TablesRejected == InvalidInputTable(inputRange) \/ SchemaRejected(schemaRange)

\* C11 as stated: a STRUCTIFY call whose tables pass validation sends one
\* request per input row, whatever the state of the credential store.
C11_OneRequestPerValidatedRow ==
    (op = "STRUCTIFY" /\ pc = "done" /\ ~TablesRejected) => requests = Len(inputRange.a)

\* C11: a STRUCTIFY call that raises before its loop (a table fails
\* validation, or the schema rows cannot be read) sends no request; one that
\* reaches its loop while a key is stored sends exactly one request per
\* input row, the request of row k in the k-th pass of the loop and none
\* again for a row whose request failed; with no key stored it sends none;
\* a SCHEMIFY call sends at most one.
C11_GatewayCalls ==
    /\ [](op = "STRUCTIFY" =>
            /\ TablesRejected => outcome.status = "raised"
            /\ outcome.status = "raised" => (pc = "done" /\ requests = 0)
            /\ (LoopStarted /\ properties # NoProperty) =>
                  /\ requests = rowIndex
                  /\ requests = Len(responses)
                  /\ pc = "done" => requests = Len(inputRange.a)
            /\ (LoopStarted /\ properties = NoProperty) => requests = 0)
    /\ [](op = "SCHEMIFY" => requests <= 1)
    /\ [][(op = "STRUCTIFY" /\ op' = "STRUCTIFY" /\ requests' # requests) =>
            /\ requests' = requests + 1
            /\ rowIndex' = rowIndex + 1
            /\ Len(responses') = rowIndex']_vars

C11_Witness ==
    /\ op = "STRUCTIFY"
    /\ pc = "done"
    /\ Len(inputRange.a) = 2
    /\ requests = 2
    /\ responses[1].body = "error"
    /\ responses[2].body = "content"
    /\ outcome.status = "returned"

-----------------------------------------------------------------------------
(* Properties of the model gateway (Spec) *)

\* the responses of the requests sent so far in the call under way
Answered == {k \in 1..Len(responses) : responses[k] # NoResponse}

\* a response came back and its HTTP status is not 200
NonSuccess(resp) == resp.body # "exception" /\ resp.status # 200

\* the envelope has no 'choices' entry, or its first choice has no content
LacksContent(resp) == resp.body \in {"noChoices", "noContent"}

\* C12: the gateway raises an API error for every response with a
\* non-success HTTP status, a refusal error for a response whose first choice
\* carries a refusal, and a third kind of error for an envelope without the
\* content field; it returns a value in none of these cases.  (That the API
\* error carries the status and the raw body is left out here: the weaker
\* statement already fails.)
C12_GatewayClassifiesFailures ==
    \A k \in Answered :
        LET resp == responses[k]
            result == callOpenAIStructuredOutputs(resp)
        IN  /\ NonSuccess(resp) =>
                  (result.status = "raised" /\ result.error = ErrApi)
            /\ (~NonSuccess(resp) /\ resp.body = "refusal") =>
                  (result.status = "raised" /\ result.error = ErrRefusal)
            /\ (~NonSuccess(resp) /\ LacksContent(resp)) =>
                  (result.status = "raised" /\ result.error \notin {ErrApi, ErrRefusal})

-----------------------------------------------------------------------------
(* Properties of the credential accessor (Spec) *)

\* a key is stored
KeyStored == properties # NoProperty

\* C13: from an empty store, over any sequence of calls: getOpenAIKey raises
\* when no key is stored and otherwise returns the stored key, which is the
\* token of the most recent setOpenAIKey call that succeeded; setOpenAIKey
\* with an empty token raises and leaves the store as it was; checkToken
\* never raises and returns the SUCCESS text exactly when a key is stored,
\* the ERROR text otherwise.
C13_CredentialAccessor ==
    /\ [](properties \in Keys \cup {NoProperty})
    /\ []((pc = "done" /\ op = "getOpenAIKey") =>
            IF KeyStored
            THEN outcome.status = "returned" /\ outcome.value = properties
            ELSE outcome.status = "raised" /\ outcome.error = ErrKeyNotSet)
    /\ []((pc = "done" /\ op = "checkToken") =>
            /\ outcome.status = "returned"
            /\ outcome.value = IF KeyStored THEN MsgCheckSuccess ELSE MsgCheckError)
    /\ []((pc = "done" /\ op = "setOpenAIKey") =>
            IF tokenArgument = ""
            THEN outcome.status = "raised" /\ outcome.error = ErrKeyEmpty
            ELSE outcome.status = "returned" /\ properties = tokenArgument)
    /\ [][properties' # properties =>
            (op' = "setOpenAIKey" /\ tokenArgument' # "" /\ properties' = tokenArgument')]_vars

C13_Witness ==
    /\ pc = "done"
    /\ op = "getOpenAIKey"
    /\ outcome.status = "returned"
    /\ outcome.value = "sk-2"

-----------------------------------------------------------------------------
(* Properties of STRUCTIFY's result (Spec) *)

\* a value the record lacks is written as the empty text
FieldText(v) == IF v = undefined THEN "" ELSE v

RECURSIVE JoinedUpTo(_, _, _)
\* the first n texts with sep between neighbours
JoinedUpTo(texts, sep, n) ==
    IF n = 0 THEN ""
    ELSE IF n = 1 THEN texts[1]
    ELSE JoinedUpTo(texts, sep, n - 1) \o sep \o texts[n]

RowText(row, sep) == JoinedUpTo([c \in 1..Len(row) |-> FieldText(row[c])], sep, Len(row))

RowSeparatorUsed == IF separators.row = undefined THEN "|" ELSE separators.row

ColumnSeparatorUsed == IF separators.column = undefined THEN "," ELSE separators.column

\* C14: STRUCTIFY returns one string: the fields of each output row joined
\* with the column separator, the rows joined in order with the row
\* separator; an omitted row separator is "|", an omitted column separator
\* is ",".
C14_SerializedResult ==
    (op = "STRUCTIFY" /\ pc = "done" /\ outcome.status = "returned") =>
        outcome.value =
            JoinedUpTo([r \in 1..Len(resultRows) |-> RowText(resultRows[r], ColumnSeparatorUsed)],
                       RowSeparatorUsed, Len(resultRows))

C14_Witness ==
    /\ op = "STRUCTIFY"
    /\ pc = "done"
    /\ separators = Omitted
    /\ resultRows = <<<<"ID_1", "John Doe", "29">>, <<"ID_2", "John Doe", "29">>>>
    /\ outcome.status = "returned"
    /\ outcome.value = "ID_1,John Doe,29|ID_2,John Doe,29"

-----------------------------------------------------------------------------
(* Properties of SCHEMIFY (Spec) *)

\* the single response of a SCHEMIFY call carries content
GatewaySucceeded == Len(responses) = 1 /\ responses[1].body = "content"

ItemsSent == responses[1].content.schema_items

\* an item with a key, a description and one of the four types
WellFormedItem(item) ==
    /\ item # Null
    /\ item.key \notin {"", undefined}
    /\ item.description \notin {"", undefined}
    /\ item.type \in {"string", "number", "date", "boolean"}

\* the call got a schema_items array of well-formed items
SchemaItemsUsable ==
    /\ GatewaySucceeded
    /\ ItemsSent.t = "array"
    /\ \A k \in 1..Len(ItemsSent.a) : WellFormedItem(ItemsSent.a[k])

\* row n of a returned table
ReturnedRow(n) == outcome.value.a[n].a

\* C15: SCHEMIFY returns a table only when its one gateway call succeeds with
\* a schema_items array of well-formed items, and the table is then the keys,
\* the descriptions and the types of the items, in the order sent; after a
\* gateway failure, without a schema_items array, or with an item that is
\* not well formed, it raises and returns no table.
C15_SchemifyStrict ==
    (op = "SCHEMIFY" /\ pc = "done") =>
        IF SchemaItemsUsable
        THEN /\ outcome.status = "returned"
             /\ outcome.value.t = "array"
             /\ Len(outcome.value.a) = 3
             /\ \A n \in 1..3 : Len(ReturnedRow(n)) = Len(ItemsSent.a)
             /\ \A k \in 1..Len(ItemsSent.a) :
                   /\ ReturnedRow(1)[k] = ItemsSent.a[k].key
                   /\ ReturnedRow(2)[k] = ItemsSent.a[k].description
                   /\ ReturnedRow(3)[k] = ItemsSent.a[k].type
        ELSE /\ outcome.status = "raised"
             /\ outcome.value = undefined

C15_Witness ==
    /\ op = "SCHEMIFY"
    /\ pc = "done"
    /\ SchemaItemsUsable
    /\ Len(ItemsSent.a) = 2
    /\ ItemsSent.a[1].key = "age"
    /\ ItemsSent.a[2].key = "name"
    /\ outcome.status = "returned"
    /\ ReturnedRow(1) = <<"age", "name">>
    /\ ReturnedRow(3) = <<"number", "string">>

\* C16: every table SCHEMIFY returns is accepted by validateSchemaRange, so
\* it can be passed to STRUCTIFY as its schemaRange.
C16_SchemifyOutputIsValidSchema ==
    (op = "SCHEMIFY" /\ pc = "done" /\ outcome.status = "returned") =>
        validateSchemaRange(outcome.value) = OK

-----------------------------------------------------------------------------
(* Properties of the JSON Schema STRUCTIFY builds (Spec) *)

\* the JSON Schema of the call under way has been built
JsonSchemaBuilt == op = "STRUCTIFY" /\ jsonSchema # Undefined

RecordsSchema == jsonSchema.properties.records

ItemSchema == RecordsSchema.items

Columns == 1..Len(KeyRow)

\* the description and the type the schema table gives for column c
DescriptionOf(c) ==
    IF c <= Len(schemaRange.a[2].a) THEN schemaRange.a[2].a[c] ELSE undefined

TypeOf(c) == schemaRange.a[3].a[c]

\* the JSON Schema type of a field type: a date is sent as a string
JsonTypeOf(type) == IF type = "date" THEN "string" ELSE type

\* the root is an object whose one, required property is the array
\* 'records', and neither it nor the items allow other properties
RootIsRecordsArray ==
    /\ jsonSchema.type = "object"
    /\ DOMAIN jsonSchema.properties = {"records"}
    /\ jsonSchema.required = <<"records">>
    /\ jsonSchema.additionalProperties = FALSE
    /\ RecordsSchema.type = "array"
    /\ ItemSchema.type = "object"
    /\ ItemSchema.additionalProperties = FALSE
    /\ DOMAIN ItemSchema.properties = {KeyRow[c] : c \in Columns}

\* C17 as stated: for every validated schema the property of every schema
\* key has that column's type (date as string) and description, and every
\* key is required.
C17_JsonSchemaMirrorsSchema ==
    JsonSchemaBuilt =>
        /\ RootIsRecordsArray
        /\ \A c \in Columns :
              /\ ItemSchema.properties[KeyRow[c]].type = JsonTypeOf(TypeOf(c))
              /\ ItemSchema.properties[KeyRow[c]].description = DescriptionOf(c)
              /\ \E r \in 1..Len(ItemSchema.required) : ItemSchema.required[r] = KeyRow[c]

\* the last column that names the key of column c
LastColumnOf(c) == Max({d \in Columns : KeyRow[d] = KeyRow[c]})

\* C17: for every validated schema the root is an object whose only, required
\* property is the array 'records'; the item's properties are exactly the
\* schema keys; the property of a key has the type (date as string) and the
\* description of the last column that names the key; the required list is
\* the key row; no additional properties are allowed.
C17_JsonSchemaOfValidatedSchema ==
    JsonSchemaBuilt =>
        /\ RootIsRecordsArray
        /\ \A c \in Columns :
              /\ ItemSchema.properties[KeyRow[c]].type = JsonTypeOf(TypeOf(LastColumnOf(c)))
              /\ ItemSchema.properties[KeyRow[c]].description = DescriptionOf(LastColumnOf(c))
        /\ ItemSchema.required = KeyRow

C17_Witness ==
    /\ JsonSchemaBuilt
    /\ schemaRange = DateSchema
    /\ ItemSchema.properties["name"].type = "string"
    /\ ItemSchema.required = <<"name">>

-----------------------------------------------------------------------------
(* Frame of the stored credential (Spec) *)

\* the step is a setOpenAIKey call with a non-empty token
StoresKey == pc = "idle" /\ op' = "setOpenAIKey" /\ tokenArgument' # ""

\* C18: the stored credential changes only in a setOpenAIKey call with a
\* non-empty token: every step of STRUCTIFY and SCHEMIFY, with their gateway
\* calls, of checkToken, of getOpenAIKey and of a setOpenAIKey call with an
\* empty token leaves it as it was, whether the call succeeds or fails.
C18_OnlySetOpenAIKeyWrites ==
    [][~StoresKey => properties' = properties]_vars

C18_Witness ==
    /\ op = "STRUCTIFY"
    /\ pc = "done"
    /\ properties = "sk-1"
    /\ Len(responses) = 2
    /\ responses[1].body = "error"
    /\ responses[2].body = "content"

-----------------------------------------------------------------------------
(* Shape of STRUCTIFY's row list (Spec) *)

\* the processing of input row k succeeded: records came back and every one
\* of them could be read
Succeeded(k) == HasRecords(k) /\ NullsOf(k) = {}

\* the output rows the claim counts for input row k
RowsCounted(k) == IF Succeeded(k) THEN Len(RecordsSent(k).a) ELSE 1

RECURSIVE RowsCountedUpTo(_)
RowsCountedUpTo(n) == IF n = 0 THEN 0 ELSE RowsCountedUpTo(n - 1) + RowsCounted(n)

\* C19: before serialization every output row has 1 + (number of schema
\* fields) elements, and the number of output rows is the sum, over the
\* input rows, of the number of records returned for a row whose processing
\* succeeded (possibly 0) and of 1 for a row whose processing failed.
C19_RowListShape ==
    LoopStarted =>
        /\ \A r \in 1..Len(resultRows) : Len(resultRows[r]) = 1 + Len(KeyRow)
        /\ Len(resultRows) = RowsCountedUpTo(Len(responses))

====
